---------------------------- MODULE Spec2Model ----------------------------
(* Fluent assertions of the spectral crate: the hashset family              *)
(* (src/src/hashset.rs) and the string family (src/src/string.rs), with the *)
(* failure builder they both commit their mismatches to.                    *)
(*                                                                          *)
(* Text is a sequence of one-character strings, so that prefixes, suffixes, *)
(* substrings and the formatted reports are compared character by           *)
(* character.                                                               *)
EXTENDS Integers, Sequences, FiniteSets

(* ------------------------------ bounds --------------------------------- *)
\* longest text used as a string subject or as an expected string
MaxLen == 2
\* largest number of elements of a subject hashset
MaxSetSize == 2
\* largest length asked of has_length
MaxExpectedLength == 10

(* ----------------------------- alphabet -------------------------------- *)
\* a lower-case letter, its upper-case form, and a character Debug escapes
Chars == {"a", "A", "\""}

Texts == UNION {[1..k -> Chars] : k \in 0..MaxLen}

\* the values stored in subject hashsets (a HashSet<&str>)
Values == {<<>>} \cup {<<c>> : c \in Chars}

None == <<"None">>

Some(x) == <<"Some", x>>

(* --------------------------- report wording ---------------------------- *)
ExpectedHeader ==
    <<"\n", "\t", "e", "x", "p", "e", "c", "t", "e", "d", ":", " ">>
\* the set family given the line of the string family
SetButWas_spaced ==
    <<"\n", "\t", " ", "b", "u", "t", " ", "w", "a", "s", ":", " ">>

\* hashset.rs tests: "\n\tbut was: "
SetButWas ==
    <<"\n", "\t", "b", "u", "t", " ", "w", "a", "s", ":", " ">>
\* string.rs tests: "\n\t but was: "
StrButWas ==
    <<"\n", "\t", " ", "b", "u", "t", " ", "w", "a", "s", ":", " ">>
NoButWas ==
    <<"\n", "\t", "w", "a", "s", ":", " ">>
MessageHeader ==
    <<"\n", "\t">>
HasLengthText ==
    <<"h", "a", "s", "h", "s", "e", "t", " ", "t", "o", " ", "h",
      "a", "v", "e", " ", "l", "e", "n", "g", "t", "h", " ", "<">>
EmptyHashSetText ==
    <<"a", "n", " ", "e", "m", "p", "t", "y", " ", "h", "a", "s",
      "h", "s", "e", "t">>
HashSetWithLengthText ==
    <<"a", " ", "h", "a", "s", "h", "s", "e", "t", " ", "w", "i",
      "t", "h", " ", "l", "e", "n", "g", "t", "h", " ", "<">>
ContainValueText ==
    <<"h", "a", "s", "h", "s", "e", "t", " ", "t", "o", " ", "c",
      "o", "n", "t", "a", "i", "n", " ", "v", "a", "l", "u", "e",
      " ", "<">>
NotContainValueText ==
    <<"h", "a", "s", "h", "s", "e", "t", " ", "t", "o", " ", "n",
      "o", "t", " ", "c", "o", "n", "t", "a", "i", "n", " ", "v",
      "a", "l", "u", "e", " ", "<">>
PresentText ==
    <<"p", "r", "e", "s", "e", "n", "t", " ", "i", "n", " ", "h",
      "a", "s", "h", "s", "e", "t">>
EqualsToText ==
    <<"s", "t", "r", "i", "n", "g", " ", "e", "q", "u", "a", "l",
      "s", " ", "t", "o", " ", "<">>
StartingWithText ==
    <<"s", "t", "r", "i", "n", "g", " ", "s", "t", "a", "r", "t",
      "i", "n", "g", " ", "w", "i", "t", "h", " ", "<">>
EndingWithText ==
    <<"s", "t", "r", "i", "n", "g", " ", "e", "n", "d", "i", "n",
      "g", " ", "w", "i", "t", "h", " ", "<">>
ContainingText ==
    <<"s", "t", "r", "i", "n", "g", " ", "c", "o", "n", "t", "a",
      "i", "n", "i", "n", "g", " ", "<">>
EmptyStringText ==
    <<"a", "n", " ", "e", "m", "p", "t", "y", " ", "s", "t", "r",
      "i", "n", "g">>
UnreachableText ==
    <<"i", "n", "t", "e", "r", "n", "a", "l", " ", "e", "r", "r",
      "o", "r", ":", " ", "e", "n", "t", "e", "r", "e", "d", " ",
      "u", "n", "r", "e", "a", "c", "h", "a", "b", "l", "e", " ",
      "c", "o", "d", "e">>

(* --------------------------- std formatting ---------------------------- *)
\* char::escape_debug, as <str as Debug>::fmt applies it to each character
escape_debug(c) ==
    IF c = "\"" THEN <<"\\", "\"">>
    ELSE IF c = "\\" THEN <<"\\", "\\">>
    ELSE <<c>>

RECURSIVE escape_str(_)
escape_str(s) ==
    IF Len(s) = 0 THEN <<>> ELSE escape_debug(Head(s)) \o escape_str(Tail(s))

\* format!("{:?}", s) of a &str: the escaped text between double quotes
debug_str(s) == <<"\"">> \o escape_str(s) \o <<"\"">>

DecimalDigits == <<"0", "1", "2", "3", "4", "5", "6", "7", "8", "9">>

\* format!("{}", n) of a usize ({:?} prints a usize the same way)
RECURSIVE display_usize(_)
display_usize(n) ==
    IF n < 10 THEN <<DecimalDigits[n + 1]>>
    ELSE display_usize(n \div 10) \o <<DecimalDigits[(n % 10) + 1]>>

RECURSIVE debug_items(_)
debug_items(vs) ==
    IF Len(vs) = 0 THEN <<>>
    ELSE IF Len(vs) = 1 THEN debug_str(vs[1])
    ELSE debug_str(Head(vs)) \o <<",", " ">> \o debug_items(Tail(vs))

\* format!("{:?}", v) of a Vec<&&str>
debug_vec(vs) == <<"[">> \o debug_items(vs) \o <<"]">>

(* ------------------------------ std str -------------------------------- *)
lower(c) == IF c = "A" THEN "a" ELSE c

\* str::eq_ignore_ascii_case in the place of str::eq
str_eq_ignore_ascii_case(s, t) ==
    Len(s) = Len(t) /\ \A i \in 1..Len(s) : lower(s[i]) = lower(t[i])

str_eq(s, t) == s = t

str_starts_with(s, p) == Len(p) <= Len(s) /\ SubSeq(s, 1, Len(p)) = p

str_ends_with(s, p) ==
    Len(p) <= Len(s) /\ SubSeq(s, Len(s) - Len(p) + 1, Len(s)) = p

str_contains(s, p) ==
    \E i \in 0..(Len(s) - Len(p)) : SubSeq(s, i + 1, i + Len(p)) = p

str_is_empty(s) == Len(s) = 0

(* ---------------------------- std HashSet ------------------------------ *)
\* A HashSet is modelled by its elements in the order iter() visits them;
\* the order is fixed per set instance and otherwise arbitrary.
Injective(q) == \A i, j \in 1..Len(q) : q[i] = q[j] => i = j

HashSets ==
    {[kind |-> "HashSet", items |-> q] :
        q \in {r \in UNION {[1..k -> Values] : k \in 0..MaxSetSize} : Injective(r)}}

Elements(h) == {h.items[i] : i \in 1..Len(h.items)}

hs_len(h) == Len(h.items)

hs_is_empty(h) == Len(h.items) = 0

\* HashSet::get: the stored element equal to v, if any
hs_get(h, v) ==
    IF \E i \in 1..Len(h.items) : h.items[i] = v
    THEN Some(h.items[CHOOSE i \in 1..Len(h.items) : h.items[i] = v])
    ELSE None

\* subject.iter().collect::<Vec<&V>>()
hs_iter_collect(h) == h.items

(* ------------------------- subjects, arguments ------------------------- *)
StrSubject(t) == [kind |-> "str", s |-> t]

StringSubject(t) == [kind |-> "String", buf |-> t]

TextSubjects == {StrSubject(t) : t \in Texts} \cup {StringSubject(t) : t \in Texts}

Subjects == HashSets \cup TextSubjects

\* the &str a string assertion reads: self.subject of a Spec<&str>, or the
\* deref of &self.subject of a Spec<String>
as_str(subject) == IF subject.kind = "String" THEN subject.buf ELSE subject.s

Forms == {"owned", "ref", "mut_ref"}

\* an expected argument E: the value itself, &value or &mut value
Arg(form, v) ==
    IF form = "owned" THEN [form |-> form, value |-> v]
    ELSE [form |-> form, referent |-> v]

\* borrow() with the &mut form read after its referent was moved out
borrow_mut_ref_lost(e) ==
    IF e.form = "owned" THEN e.value
    ELSE IF e.form = "ref" THEN e.referent
    ELSE <<>>

\* expected.borrow(): Borrow<T> for T, for &T and for &mut T
borrow(e) == IF e.form = "owned" THEN e.value ELSE e.referent

(* --------------------------- failure builder --------------------------- *)
\* AssertionFailure::from_spec reads the wrapper through DescriptiveSpec only
from_spec(spec) ==
    [subject_name |-> spec.subject_name, location |-> spec.location,
     description |-> spec.description,
     expected |-> None, actual |-> None, message |-> None]

with_expected(b, text) == [b EXCEPT !.expected = Some(text)]

with_actual(b, text) == [b EXCEPT !.actual = Some(text)]

with_message(b, text) == [b EXCEPT !.message = Some(text)]

\* the optional third line of a report
MessageLine(b) ==
    IF b.message = None THEN <<>> ELSE MessageHeader \o b.message[2]

\* fail() as the hashset assertions observe it: the report of the tests of
\* hashset.rs; the call does not return
set_fail(b) ==
    [diverges |-> TRUE, failure |-> b,
     report |-> ExpectedHeader \o b.expected[2] \o SetButWas \o b.actual[2]
                \o MessageLine(b)]

\* fail() as the string assertions observe it: the report of the tests of
\* string.rs; the call does not return
str_fail(b) ==
    [diverges |-> TRUE, failure |-> b,
     report |-> ExpectedHeader \o b.expected[2] \o StrButWas \o b.actual[2]
                \o MessageLine(b)]

\* pretty_assertions::Comparison::new(left, right), displayed
Comparison(left, right) == debug_str(left) \o <<" ", "/", " ">> \o debug_str(right)

(* ------------------------------ outcomes ------------------------------- *)
\* the function returned normally, with the wrapper it returns (if any)
Returned(ret) ==
    [panicked |-> FALSE, failure |-> None, payload |-> None, ret |-> ret]

Panicked(failure, text) ==
    [panicked |-> TRUE, failure |-> failure, payload |-> Some(text), ret |-> None]

\* statement sequencing: a call to fail() followed by the rest of the body
Then(r, rest) ==
    IF r.diverges THEN Panicked(Some(r.failure), r.report) ELSE rest

\* unreachable!()
unreachable == Panicked(None, UnreachableText)

(* ----------------------------- hashset.rs ------------------------------ *)
\* has_length with the expected length printed as the actual one
has_length_reports_expected(spec, expected) ==
    LET subject == spec.subject
    IN  IF hs_len(subject) # expected
        THEN Then(set_fail(with_actual(with_expected(from_spec(spec),
                      HasLengthText \o display_usize(expected) \o <<">">>),
                      <<"<">> \o display_usize(expected) \o <<">">>)),
                  Returned(None))
        ELSE Returned(None)

has_length(spec, expected) ==
    LET subject == spec.subject
    IN  IF hs_len(subject) # expected
        THEN Then(set_fail(with_actual(with_expected(from_spec(spec),
                      HasLengthText \o display_usize(expected) \o <<">">>),
                      <<"<">> \o display_usize(hs_len(subject)) \o <<">">>)),
                  Returned(None))
        ELSE Returned(None)

HashSet_is_empty(spec) ==
    LET subject == spec.subject
    IN  IF ~hs_is_empty(subject)
        THEN Then(set_fail(with_actual(with_expected(from_spec(spec),
                      EmptyHashSetText),
                      HashSetWithLengthText \o display_usize(hs_len(subject))
                          \o <<">">>)),
                  Returned(None))
        ELSE Returned(None)

\* the failure of contains_value, committed
ContainsValueFailure(spec, borrowed_expected, subject_values) ==
    set_fail(with_actual(with_expected(from_spec(spec),
        ContainValueText \o debug_str(borrowed_expected) \o <<">">>),
        <<"<">> \o debug_vec(subject_values) \o <<">">>))

\* contains_value wrapping the first element iter() yields, not the match
contains_value_first_element(spec, expected) ==
    LET subject == spec.subject
        borrowed_expected == borrow(expected)
        found == hs_get(subject, borrowed_expected)
    IN  IF found # None
        THEN Returned(Some([subject |-> StrSubject(hs_iter_collect(subject)[1]),
                            subject_name |-> spec.subject_name,
                            location |-> spec.location,
                            description |-> spec.description]))
        ELSE Then(ContainsValueFailure(spec, borrowed_expected,
                                       hs_iter_collect(subject)),
                  unreachable)

\* contains_value returning a wrapper that lost the location
contains_value_location_dropped(spec, expected) ==
    LET subject == spec.subject
        borrowed_expected == borrow(expected)
        found == hs_get(subject, borrowed_expected)
    IN  IF found # None
        THEN Returned(Some([subject |-> StrSubject(found[2]),
                            subject_name |-> spec.subject_name,
                            location |-> None,
                            description |-> spec.description]))
        ELSE Then(ContainsValueFailure(spec, borrowed_expected,
                                       hs_iter_collect(subject)),
                  unreachable)

\* contains_value building its failure without committing it
contains_value_uncommitted(spec, expected) ==
    LET subject == spec.subject
        borrowed_expected == borrow(expected)
        found == hs_get(subject, borrowed_expected)
    IN  IF found # None
        THEN Returned(Some([subject |-> StrSubject(found[2]),
                            subject_name |-> spec.subject_name,
                            location |-> spec.location,
                            description |-> spec.description]))
        ELSE unreachable

contains_value(spec, expected) ==
    LET subject == spec.subject
        borrowed_expected == borrow(expected)
        found == hs_get(subject, borrowed_expected)
        subject_values == hs_iter_collect(subject)
    IN  IF found # None
        THEN Returned(Some([subject |-> StrSubject(found[2]),
                            subject_name |-> spec.subject_name,
                            location |-> spec.location,
                            description |-> spec.description]))
        ELSE Then(ContainsValueFailure(spec, borrowed_expected, subject_values),
                  unreachable)

\* does_not_contain_value failing when the value is absent
does_not_contain_value_inverted(spec, expected) ==
    LET subject == spec.subject
        borrowed_expected == borrow(expected)
    IN  IF hs_get(subject, borrowed_expected) = None
        THEN Then(set_fail(with_actual(with_expected(from_spec(spec),
                      NotContainValueText \o debug_str(borrowed_expected)
                          \o <<">">>),
                      PresentText)),
                  Returned(None))
        ELSE Returned(None)

does_not_contain_value(spec, expected) ==
    LET subject == spec.subject
        borrowed_expected == borrow(expected)
    IN  IF hs_get(subject, borrowed_expected) # None
        THEN Then(set_fail(with_actual(with_expected(from_spec(spec),
                      NotContainValueText \o debug_str(borrowed_expected)
                          \o <<">">>),
                      PresentText)),
                  Returned(None))
        ELSE Returned(None)

(* ------------------------------ string.rs ------------------------------ *)
\* the failure the four comparing assertions build: expected, actual, diff
StrMismatch(spec, wording, subject, borrowed_expected) ==
    str_fail(with_message(with_actual(with_expected(from_spec(spec),
                 wording \o debug_str(borrowed_expected) \o <<">">>),
                 <<"<">> \o debug_str(subject) \o <<">">>),
                 Comparison(borrowed_expected, subject)))

equals_to(spec, subject, expected) ==
    LET borrowed_expected == borrow(expected)
    IN  IF ~str_eq(subject, borrowed_expected)
        THEN Then(StrMismatch(spec, EqualsToText, subject, borrowed_expected),
                  Returned(None))
        ELSE Returned(None)

starts_with(spec, subject, expected) ==
    LET borrowed_expected == borrow(expected)
    IN  IF ~str_starts_with(subject, borrowed_expected)
        THEN Then(StrMismatch(spec, StartingWithText, subject, borrowed_expected),
                  Returned(None))
        ELSE Returned(None)

\* ends_with reporting with the wording of starts_with
ends_with_wrong_wording(spec, subject, expected) ==
    LET borrowed_expected == borrow(expected)
    IN  IF ~str_ends_with(subject, borrowed_expected)
        THEN Then(StrMismatch(spec, StartingWithText, subject, borrowed_expected),
                  Returned(None))
        ELSE Returned(None)

ends_with(spec, subject, expected) ==
    LET borrowed_expected == borrow(expected)
    IN  IF ~str_ends_with(subject, borrowed_expected)
        THEN Then(StrMismatch(spec, EndingWithText, subject, borrowed_expected),
                  Returned(None))
        ELSE Returned(None)

contains(spec, subject, expected) ==
    LET borrowed_expected == borrow(expected)
    IN  IF ~str_contains(subject, borrowed_expected)
        THEN Then(StrMismatch(spec, ContainingText, subject, borrowed_expected),
                  Returned(None))
        ELSE Returned(None)

\* is_empty letting a text of one character pass
is_empty_one_char(spec, subject) ==
    IF Len(subject) > 1
    THEN Then(str_fail(with_actual(with_expected(from_spec(spec),
                  EmptyStringText),
                  <<"<">> \o debug_str(subject) \o <<">">>)),
              Returned(None))
    ELSE Returned(None)

is_empty(spec, subject) ==
    IF ~str_is_empty(subject)
    THEN Then(str_fail(with_actual(with_expected(from_spec(spec),
                  EmptyStringText),
                  <<"<">> \o debug_str(subject) \o <<">">>)),
              Returned(None))
    ELSE Returned(None)

(* ------------------------------- state --------------------------------- *)
VARIABLES
    pc,         \* "idle", "running", "wrapped", "returned" or "panicked"
    subj,       \* the value under test of the running test case
    spec,       \* the subject wrapper the next assertion is called on
    origin,     \* the wrapper the entry point built for the current statement
    failure,    \* the AssertionFailure committed by the last assertion
    payload,    \* the payload of the panic unwinding the test case
    last,       \* the last assertion called: its name, wrapper and argument
    step        \* the name of the last operation

vars == <<pc, subj, spec, origin, failure, payload, last, step>>

\* the source text of the expression handed to the entry point
SourceText(v) == IF v.kind = "HashSet" THEN "&test_set" ELSE "&value"

Locations == {None, Some("src/lib.rs:7:5")}

Descriptions == {"the fixture"}

Init ==
    /\ pc = "idle"
    /\ subj = None
    /\ spec = None
    /\ origin = None
    /\ failure = None
    /\ payload = None
    /\ last = None
    /\ step = "init"

\* the harness starts a test case around a value
StartTest(v) ==
    /\ pc = "idle"
    /\ pc' = "running"
    /\ subj' = Some(v)
    /\ step' = "StartTest"
    /\ UNCHANGED <<spec, origin, failure, payload, last>>

\* the harness ends the test case: it returned, or it unwound with a panic
EndTest ==
    /\ pc \in {"running", "returned", "panicked"}
    /\ pc' = "idle"
    /\ subj' = None
    /\ spec' = None
    /\ origin' = None
    /\ failure' = None
    /\ payload' = None
    /\ last' = None
    /\ step' = "EndTest"

\* the entry point: a wrapper around the value, with no description
assert_that(location) ==
    /\ pc \in {"running", "returned"}
    /\ LET w == [subject |-> subj[2],
                 subject_name |-> Some(SourceText(subj[2])),
                 location |-> location,
                 description |-> None]
       IN  spec' = Some(w) /\ origin' = Some(w)
    /\ pc' = "wrapped"
    /\ failure' = None
    /\ payload' = None
    /\ last' = None
    /\ step' = "assert_that"
    /\ UNCHANGED subj

\* the caller labels the wrapper before asserting on it
described(d) ==
    /\ pc = "wrapped"
    /\ spec[2].description = None
    /\ LET w == [spec[2] EXCEPT !.description = Some(d)]
       IN  spec' = Some(w) /\ origin' = Some(w)
    /\ step' = "described"
    /\ UNCHANGED <<pc, subj, failure, payload, last>>

\* an assertion may be called on a fresh wrapper or on one a drill-down returned
Callable(kinds) ==
    /\ pc \in {"wrapped", "returned"}
    /\ spec # None
    /\ spec[2].subject.kind \in kinds

\* the effect of an assertion call with outcome out
Call(op, arg, out) ==
    /\ pc' = IF out.panicked THEN "panicked" ELSE "returned"
    /\ spec' = out.ret
    /\ failure' = out.failure
    /\ payload' = out.payload
    /\ last' = Some([op |-> op, spec |-> spec[2], arg |-> arg])
    /\ step' = op
    /\ UNCHANGED <<subj, origin>>

HashSetAssertions_has_length(n) ==
    /\ Callable({"HashSet"})
    /\ Call("has_length", n, has_length(spec[2], n))

HashSetAssertions_is_empty ==
    /\ Callable({"HashSet"})
    /\ Call("hashset_is_empty", None, HashSet_is_empty(spec[2]))

ValueHashSetAssertions_contains_value(e) ==
    /\ Callable({"HashSet"})
    /\ Call("contains_value", e, contains_value(spec[2], e))

ValueHashSetAssertions_does_not_contain_value(e) ==
    /\ Callable({"HashSet"})
    /\ Call("does_not_contain_value", e, does_not_contain_value(spec[2], e))

StrAssertions_equals_to(e) ==
    /\ Callable({"str", "String"})
    /\ Call("equals_to", e, equals_to(spec[2], as_str(spec[2].subject), e))

StrAssertions_starts_with(e) ==
    /\ Callable({"str", "String"})
    /\ Call("starts_with", e, starts_with(spec[2], as_str(spec[2].subject), e))

StrAssertions_ends_with(e) ==
    /\ Callable({"str", "String"})
    /\ Call("ends_with", e, ends_with(spec[2], as_str(spec[2].subject), e))

StrAssertions_contains(e) ==
    /\ Callable({"str", "String"})
    /\ Call("contains", e, contains(spec[2], as_str(spec[2].subject), e))

StrAssertions_is_empty ==
    /\ Callable({"str", "String"})
    /\ Call("is_empty", None, is_empty(spec[2], as_str(spec[2].subject)))

ValueArgs == {Arg(f, v) : f \in Forms, v \in Values}

TextArgs == {Arg(f, t) : f \in Forms, t \in Texts}

Next ==
    \/ \E v \in Subjects : StartTest(v)
    \/ EndTest
    \/ \E l \in Locations : assert_that(l)
    \/ \E d \in Descriptions : described(d)
    \/ \E n \in 0..MaxExpectedLength : HashSetAssertions_has_length(n)
    \/ HashSetAssertions_is_empty
    \/ \E e \in ValueArgs : ValueHashSetAssertions_contains_value(e)
    \/ \E e \in ValueArgs : ValueHashSetAssertions_does_not_contain_value(e)
    \/ \E e \in TextArgs : StrAssertions_equals_to(e)
    \/ \E e \in TextArgs : StrAssertions_starts_with(e)
    \/ \E e \in TextArgs : StrAssertions_ends_with(e)
    \/ \E e \in TextArgs : StrAssertions_contains(e)
    \/ StrAssertions_is_empty

Spec == Init /\ [][Next]_vars

(* ======================= properties of the assertions ================== *)
\* the last assertion called was op
LastIs(op) == last # None /\ last[2].op = op

\* the value the caller passed, whatever the form it was passed in
Passed(e) == IF e.form = "owned" THEN e.value ELSE e.referent

\* the characters of a text subject
TextOf(subject) == IF subject.kind = "str" THEN subject.s ELSE subject.buf

\* the outcome the state records for the last call
Observed ==
    [panicked |-> pc = "panicked", failure |-> failure, payload |-> payload,
     ret |-> spec]

\* the assertion op called on wrapper w with argument e
OutcomeOf(op, w, e) ==
    CASE op = "contains_value" -> contains_value(w, e)
      [] op = "does_not_contain_value" -> does_not_contain_value(w, e)
      [] op = "equals_to" -> equals_to(w, as_str(w.subject), e)
      [] op = "starts_with" -> starts_with(w, as_str(w.subject), e)
      [] op = "ends_with" -> ends_with(w, as_str(w.subject), e)
      [] op = "contains" -> contains(w, as_str(w.subject), e)

\* the ways of listing the elements of a finite set, each once
Listings(S) ==
    {q \in [1..Cardinality(S) -> S] : \A x \in S : \E i \in 1..Cardinality(S) : q[i] = x}

Quoted(t) == <<"\"">> \o escape_str(t) \o <<"\"">>

Angle(t) == <<"<">> \o t \o <<">">>

\* C1: contains_value(v) on a hashset C returns normally iff some element of
\* C equals v; it then returns a wrapper whose subject is that element, on
\* which equals_to(v) succeeds too; otherwise it fails with expected text
\* "hashset to contain value <v>" and an actual text listing the elements of C.
C1_ContainsValue ==
    LastIs("contains_value") =>
        LET C == Elements(last[2].spec.subject)
            v == Passed(last[2].arg)
        IN  /\ (pc = "returned") <=> (\E x \in C : x = v)
            /\ (pc = "panicked") <=> ~(\E x \in C : x = v)
            /\ pc = "returned" =>
                /\ spec # None
                /\ spec[2].subject.kind = "str"
                /\ spec[2].subject.s \in C
                /\ spec[2].subject.s = v
                /\ ~equals_to(spec[2], TextOf(spec[2].subject), Arg("ref", v)).panicked
            /\ pc = "panicked" =>
                /\ spec = None
                /\ failure # None
                /\ failure[2].expected = Some(ContainValueText \o Quoted(v) \o <<">">>)
                /\ \E q \in Listings(C) :
                       failure[2].actual = Some(Angle(debug_vec(q)))

\* a contains_value found its value in a hashset of two elements
C1_Witness ==
    /\ LastIs("contains_value")
    /\ pc = "returned"
    /\ Len(last[2].spec.subject.items) = 2
    /\ last[2].spec.subject.items[2] = Passed(last[2].arg)


\* C2: on any hashset C and value v, exactly one of contains_value(v) and
\* does_not_contain_value(v) returns normally, and the other one aborts with
\* a committed failure.
C2_ExactlyOne ==
    (LastIs("contains_value") \/ LastIs("does_not_contain_value")) =>
        LET w == last[2].spec
            e == last[2].arg
            other == IF last[2].op = "contains_value"
                     THEN does_not_contain_value(w, e)
                     ELSE contains_value(w, e)
        IN  /\ (pc = "returned") <=> other.panicked
            /\ (pc = "panicked") <=> ~other.panicked
            /\ pc = "panicked" => failure # None
            /\ other.panicked => other.failure # None

\* does_not_contain_value aborted on a value the hashset holds
C2_Witness ==
    /\ LastIs("does_not_contain_value")
    /\ pc = "panicked"
    /\ Passed(last[2].arg) \in Elements(last[2].spec.subject)

StringOps == {"equals_to", "starts_with", "ends_with", "contains", "is_empty"}

\* the last call was a string assertion on a wrapper a drill-down returned
Chained ==
    /\ last # None
    /\ last[2].op \in StringOps
    /\ origin # None
    /\ origin[2].subject.kind = "HashSet"

\* C3: the wrapper a successful contains_value returns has the subject_name,
\* location and description of the wrapper it was called on, and a failing
\* assertion on the returned wrapper reports those of the original wrapper.
C3_MetadataPropagation ==
    /\ (LastIs("contains_value") /\ pc = "returned") =>
        /\ spec[2].subject_name = last[2].spec.subject_name
        /\ spec[2].location = last[2].spec.location
        /\ spec[2].description = last[2].spec.description
        /\ last[2].spec = origin[2]
        /\ spec[2].subject # origin[2].subject
    /\ (Chained /\ pc = "panicked") =>
        /\ failure # None
        /\ failure[2].subject_name = origin[2].subject_name
        /\ failure[2].subject_name = Some("&test_set")
        /\ failure[2].location = origin[2].location
        /\ failure[2].description = origin[2].description

\* an assertion failed on an element drilled out of a located, described hashset
C3_Witness ==
    /\ Chained
    /\ pc = "panicked"
    /\ origin[2].location # None
    /\ origin[2].description # None

\* C4: has_length(n) on a hashset C returns normally iff C has n elements;
\* otherwise it fails with expected text "hashset to have length <n>" and
\* actual text "<size>", the size of C in decimal.
C4_HasLength ==
    LastIs("has_length") =>
        LET size == Cardinality(Elements(last[2].spec.subject))
            n == last[2].arg
        IN  /\ (pc = "returned") <=> (size = n)
            /\ (pc = "panicked") <=> (size # n)
            /\ pc = "panicked" =>
                /\ failure # None
                /\ failure[2].expected = Some(HasLengthText \o display_usize(n) \o <<">">>)
                /\ failure[2].actual = Some(Angle(display_usize(size)))
                /\ failure[2].actual # Some(Angle(display_usize(n)))

\* has_length failed on a hashset of two elements asked for a two-digit length
C4_Witness ==
    /\ LastIs("has_length")
    /\ pc = "panicked"
    /\ last[2].arg >= 10
    /\ Len(last[2].spec.subject.items) = 2

\* C5: is_empty() returns normally iff the subject has size zero, on hashsets
\* and on &str and String subjects; on a non-empty hashset it fails with
\* expected "an empty hashset" and actual "a hashset with length <size>", on a
\* non-empty text with expected "an empty string" and actual "<"text">".
C5_IsEmpty ==
    /\ LastIs("hashset_is_empty") =>
        LET size == Cardinality(Elements(last[2].spec.subject))
        IN  /\ (pc = "returned") <=> (size = 0)
            /\ (pc = "panicked") <=> (size # 0)
            /\ pc = "panicked" =>
                /\ failure # None
                /\ failure[2].expected = Some(EmptyHashSetText)
                /\ failure[2].actual =
                       Some(HashSetWithLengthText \o display_usize(size) \o <<">">>)
    /\ LastIs("is_empty") =>
        LET T == TextOf(last[2].spec.subject)
        IN  /\ (pc = "returned") <=> (T = <<>>)
            /\ (pc = "panicked") <=> (T # <<>>)
            /\ pc = "panicked" =>
                /\ failure # None
                /\ failure[2].expected = Some(EmptyStringText)
                /\ failure[2].actual = Some(Angle(Quoted(T)))

\* is_empty failed on a String subject that holds text
C5_Witness ==
    /\ LastIs("is_empty")
    /\ pc = "panicked"
    /\ last[2].spec.subject.kind = "String"
    /\ Len(last[2].spec.subject.buf) = 2

\* p is a prefix, a suffix, a part of t, character by character
IsPrefix(p, t) == Len(p) <= Len(t) /\ \A i \in 1..Len(p) : t[i] = p[i]

IsSuffix(p, t) ==
    Len(p) <= Len(t) /\ \A i \in 1..Len(p) : t[Len(t) - Len(p) + i] = p[i]

IsPart(p, t) ==
    \E k \in 0..Len(t) : k + Len(p) <= Len(t) /\ \A i \in 1..Len(p) : t[k + i] = p[i]

\* the same wrapper around the same text held the other way (&str / String)
OtherKind(w) ==
    [w EXCEPT !.subject = IF w.subject.kind = "str"
                          THEN StringSubject(TextOf(w.subject))
                          ELSE StrSubject(TextOf(w.subject))]

\* C6: on a text T and an expected text s, equals_to(s) returns normally only
\* when T and s are the same characters (case kept), starts_with(s),
\* ends_with(s) and contains(s) iff s is a prefix, a suffix, a part of T, so
\* that an empty s passes them; and a &str and a String subject of the same
\* text have the same outcome.
C6_TextPredicates ==
    (last # None /\ last[2].op \in {"equals_to", "starts_with", "ends_with", "contains"}) =>
        LET T == TextOf(last[2].spec.subject)
            s == Passed(last[2].arg)
            op == last[2].op
            ok == pc = "returned"
        IN  /\ pc \in {"returned", "panicked"}
            /\ op = "equals_to" => (ok <=> (Len(T) = Len(s) /\ \A i \in 1..Len(T) : T[i] = s[i]))
            /\ op = "starts_with" => (ok <=> IsPrefix(s, T))
            /\ op = "ends_with" => (ok <=> IsSuffix(s, T))
            /\ op = "contains" => (ok <=> IsPart(s, T))
            /\ (s = <<>> /\ op # "equals_to") => ok
            /\ OutcomeOf(op, OtherKind(last[2].spec), last[2].arg) = Observed

\* equals_to failed on two texts that differ only in the case of a letter
C6_Witness ==
    /\ LastIs("equals_to")
    /\ pc = "panicked"
    /\ TextOf(last[2].spec.subject) = <<"a", "A">>
    /\ Passed(last[2].arg) = <<"a", "a">>

ArgumentOps ==
    {"equals_to", "starts_with", "ends_with", "contains", "contains_value",
     "does_not_contain_value"}

\* C7: an assertion taking an expected argument has the same outcome (return
\* or abort, returned wrapper, failure and report text) whether the argument
\* is passed as an owned value, a reference or a mutable reference.
C7_ArgumentForm ==
    (last # None /\ last[2].op \in ArgumentOps) =>
        \A f \in Forms :
            OutcomeOf(last[2].op, last[2].spec, Arg(f, Passed(last[2].arg))) = Observed

\* an assertion failed on an argument passed as a mutable reference
C7_Witness ==
    /\ last # None
    /\ last[2].op \in ArgumentOps
    /\ last[2].arg.form = "mut_ref"
    /\ Len(Passed(last[2].arg)) > 0
    /\ pc = "panicked"

\* the report a committed failure formats to, given the line that opens its
\* actual text
Shape(b, but_was) ==
    ExpectedHeader \o b.expected[2] \o but_was \o b.actual[2]
        \o (IF b.message = None THEN <<>> ELSE <<"\n", "\t">> \o b.message[2])

\* C8: a failing assertion never returns normally: the test case unwinds with
\* the report of the committed failure as its payload, no wrapper is returned
\* (the unreachable!() after fail() is not executed), and nothing of the
\* chain runs after it: the next step is the harness ending the test case.
C8_FailureDiverges ==
    [][/\ pc' = "panicked" =>
            /\ spec' = None
            /\ failure' # None
            /\ payload' # None
            /\ payload' # Some(UnreachableText)
            /\ payload'[2] \in {Shape(failure'[2], SetButWas), Shape(failure'[2], StrButWas)}
       /\ (failure' # None \/ payload' # None) => pc' = "panicked"
       /\ pc = "panicked" => (step' = "EndTest" /\ pc' = "idle" /\ last' = None)]_vars

\* contains_value aborted on a value the hashset lacks
C8_Witness ==
    /\ LastIs("contains_value")
    /\ pc = "panicked"
    /\ payload # None
    /\ spec = None

SetOps == {"has_length", "hashset_is_empty", "contains_value", "does_not_contain_value"}

ExpectedText(op, v) ==
    CASE op = "has_length" -> HasLengthText \o display_usize(v) \o <<">">>
      [] op = "hashset_is_empty" -> EmptyHashSetText
      [] op = "contains_value" -> ContainValueText \o Quoted(Passed(v)) \o <<">">>
      [] op = "does_not_contain_value" -> NotContainValueText \o Quoted(Passed(v)) \o <<">">>
      [] op = "equals_to" -> EqualsToText \o Quoted(Passed(v)) \o <<">">>
      [] op = "starts_with" -> StartingWithText \o Quoted(Passed(v)) \o <<">">>
      [] op = "ends_with" -> EndingWithText \o Quoted(Passed(v)) \o <<">">>
      [] op = "contains" -> ContainingText \o Quoted(Passed(v)) \o <<">">>
      [] op = "is_empty" -> EmptyStringText

=============================================================================
